---- MODULE Spec2Model ----
(***************************************************************************)
(* State-machine model of the connectivity-maintenance control loop of     *)
(* AutoNetworkLogin (src/AutoNetworkLogin/自动登录-V1.2.2.py):              *)
(* NetworkLoginApp (the controller, all of whose handlers run on the Qt    *)
(* main thread), the LoginWorker threads it starts, the NetworkMonitor     *)
(* thread, the periodic-login QTimer and the configuration file.           *)
(*                                                                         *)
(* A handler is one atomic action: it runs to completion on the main       *)
(* thread, the slots it triggers through setChecked/setValue included.     *)
(* Signals emitted by the worker and monitor threads are queued to the     *)
(* main thread (login_results, network_status).  Nothing reads a queued    *)
(* signal before its delivery and its payload is chosen by the network,    *)
(* so a queue is modelled by its length and the payload is drawn at        *)
(* delivery.                                                               *)
(*                                                                         *)
(* An exception that leaves a slot is fatal under PyQt6 (the program       *)
(* installs no excepthook): phase becomes "crashed" and nothing runs       *)
(* afterwards.                                                             *)
(***************************************************************************)
EXTENDS Integers, Sequences, FiniteSets, TLC

\* ------------------------------------------------------------------ bounds
\* at most this many login attempts in flight (running or result queued)
MaxInFlight == 2
\* at most this many undelivered network_status signals
MaxQueue == 1
\* length of the longest response body
MaxBody == 120

\* ------------------------------------------------- program constants
SpinCheckMin == 10
SpinCheckMax == 3600
SpinPeriodicMin == 0
SpinPeriodicMax == 86400
\* response.text[:100]
TextLimit == 100

\* ------------------------------------------------- input domains
\* check_interval values: the one of the default file, and the values a
\* user sets in the spin box
FileCheckValues == {60}
UserCheckValues == {10, 60}
\* periodic_login_interval values, in seconds (0 = off)
PeriodicValues == {0, 1, 2}

\* ------------------------------------------------- configuration documents
\* A parsed configuration (the result of yaml.safe_load) is a record
\*   shape    "none"       the document is empty: safe_load returns None
\*            "noSettings" a mapping without the Settings section
\*            "noLogin"    a mapping with Settings but without Login
\*            "noHeaders"  a mapping with Login and Settings but without Headers
\*            "full"       Login, Headers and Settings are present
\*   cred     "placeholder" when userName, pwd and url are all the default
\*            sentinels, "userName" / "pwd" / "url" when only that one
\*            still is, "ok" when all three are filled in, "-" when Login
\*            is absent
\*   auto, forced, check, periodic   the Settings values
\* A file can also hold text that is not YAML: shape "unparsable".
Doc(shape, cred, auto, forced, check, periodic) ==
    [shape |-> shape, cred |-> cred, auto |-> auto, forced |-> forced,
     check |-> check, periodic |-> periodic]

NoneDoc == Doc("none", "-", FALSE, FALSE, 0, 0)
UnparsableDoc == Doc("unparsable", "-", FALSE, FALSE, 0, 0)
NoSettingsDoc == Doc("noSettings", "ok", FALSE, FALSE, 0, 0)

\* the file written by create_default_config
DefaultDoc == Doc("full", "placeholder", TRUE, FALSE, 60, 0)

FullDocs ==
    { Doc("full", "ok", a, f, k, p) :
        a \in BOOLEAN, f \in BOOLEAN,
        k \in FileCheckValues, p \in PeriodicValues } \cup {DefaultDoc}

NoLoginDocs ==
    { Doc("noLogin", "-", FALSE, f, k, p) :
        f \in BOOLEAN, k \in FileCheckValues, p \in {0, 2} }

\* the default file after the user filled in two of the three fields and
\* switched the periodic login on
HalfFilledDocs ==
    { Doc("full", c, TRUE, FALSE, 60, 1) : c \in {"userName", "pwd", "url"} }

\* a check_interval that is not an integer: the key was left without a
\* value (None) or holds a text
NotAnInt == -1

is_int(v) == v # NotAnInt

\* a complete file in which check_interval was left without a number
BadCheckDocs ==
    { Doc("full", "ok", TRUE, FALSE, NotAnInt, p) : p \in {0, 2} }

\* what an editor can leave in network_config.yaml when every value it
\* writes has the type the program expects
FileContents ==
    FullDocs \cup HalfFilledDocs \cup NoLoginDocs
        \cup {NoneDoc, UnparsableDoc, NoSettingsDoc}

\* a filled-in file from which the Headers section was deleted
NoHeadersDoc == Doc("noHeaders", "ok", TRUE, FALSE, 60, 0)

\* config['Settings'], config['Login'] and config['Headers'] succeed
hasSettings(c) == c.shape \in {"noLogin", "noHeaders", "full"}
hasLogin(c) == c.shape \in {"noSettings", "noHeaders", "full"}
hasHeaders(c) == c.shape \in {"noSettings", "full"}

\* the three tests of the guard of NetworkLoginApp.do_login
userName_is_placeholder(c) == c.cred \in {"placeholder", "userName"}
pwd_is_placeholder(c) == c.cred \in {"placeholder", "pwd"}
url_has_placeholder(c) == c.cred \in {"placeholder", "url"}

\* ------------------------------------------------- texts
\* a text (a Python str that the program searches or slices) is a sequence
\* of one-character strings
Text_success == <<"s", "u", "c", "c", "e", "s", "s">>
Text_logon_success == <<"l", "o", "g", "o", "n", " ", "s", "u", "c", "c", "e", "s", "s">>
Text_ok == <<"o", "k">>
Text_bad_password == <<"b", "a", "d", " ", "p", "a", "s", "s", "w", "o", "r", "d">>
Text_unknown_error == <<"u", "n", "k", "n", "o", "w", "n", " ", "e", "r", "r", "o", "r">>
Text_AttributeError == <<"A", "t", "t", "r", "i", "b", "u", "t", "e", "E", "r", "r", "o", "r">>
Text_KeyError == <<"K", "e", "y", "E", "r", "r", "o", "r">>
Text_ConnectionError == <<"C", "o", "n", "n", "e", "c", "t", "i", "o", "n", "E", "r", "r", "o", "r">>
Text_Timeout == <<"T", "i", "m", "e", "o", "u", "t">>
Text_Logon_Success == <<"L", "o", "g", "o", "n", " ", "S", "u", "c", "c", "e", "s", "s">>
Text_html_error == <<"<", "h", "t", "m", "l", ">", "e", "r", "r", "o", "r", "<", "/", "h", "t", "m", "l", ">">>
Text_json_list == <<"[", "\"", "s", "u", "c", "c", "e", "s", "s", "\"", "]">>
Text_json_null == <<"n", "u", "l", "l">>
Key_success == <<"\"", "s", "u", "c", "c", "e", "s", "s", "\"", ":">>
Key_msg == <<"\"", "m", "s", "g", "\"", ":">>
Text_true == <<"t", "r", "u", "e">>
Text_false == <<"f", "a", "l", "s", "e">>
UpperCase == <<"A", "B", "C", "D", "E", "F", "G", "H", "I", "J", "K", "L", "M", "N", "O", "P", "Q", "R", "S", "T", "U", "V", "W", "X", "Y", "Z">>
LowerCase == <<"a", "b", "c", "d", "e", "f", "g", "h", "i", "j", "k", "l", "m", "n", "o", "p", "q", "r", "s", "t", "u", "v", "w", "x", "y", "z">>

\* str.lower
lower(t) ==
    [i \in 1..Len(t) |->
        IF \E k \in 1..Len(UpperCase) : UpperCase[k] = t[i]
        THEN LowerCase[CHOOSE k \in 1..Len(UpperCase) : UpperCase[k] = t[i]]
        ELSE t[i]]

\* sub in t
contains(t, sub) ==
    \E i \in 1..(Len(t) - Len(sub) + 1) : SubSeq(t, i, i + Len(sub) - 1) = sub

\* t[:n]
prefix(t, n) == SubSeq(t, 1, IF Len(t) < n THEN Len(t) ELSE n)

\* ------------------------------------------------- login responses
\* What requests.post gives back to LoginWorker.do_login is a record
\*   kind  "raise"        a requests.exceptions.RequestException (exc names it)
\*         "json_object"  the body is a JSON object: response.json() is a dict
\*         "json_other"   the body is JSON but not an object (list, null, ...)
\*         "text"         the body is not JSON: response.json() raises ValueError
\*   has_success, success, has_msg, msg   the keys of a JSON object
\*   text  response.text
Response(kind, exc, has_success, success, has_msg, msg, text) ==
    [kind |-> kind, exc |-> exc, has_success |-> has_success, success |-> success,
     has_msg |-> has_msg, msg |-> msg, text |-> text]

NoResponse == Response("none", <<>>, FALSE, FALSE, FALSE, <<>>, <<>>)

\* the body of a JSON object with these keys
json_text(has_success, success, has_msg, msg) ==
    <<"{">>
    \o (IF has_success
        THEN Key_success \o (IF success THEN Text_true ELSE Text_false)
        ELSE <<>>)
    \o (IF has_success /\ has_msg THEN <<",">> ELSE <<>>)
    \o (IF has_msg THEN Key_msg \o <<"\"">> \o msg \o <<"\"">> ELSE <<>>)
    \o <<"}">>

JsonObject(has_success, success, has_msg, msg) ==
    Response("json_object", <<>>, has_success, success, has_msg, msg,
             json_text(has_success, success, has_msg, msg))

Msgs == {Text_ok, Text_bad_password, Text_logon_success}

JsonObjects ==
    { JsonObject(TRUE, s, TRUE, m) : s \in BOOLEAN, m \in Msgs }
        \cup { JsonObject(TRUE, s, FALSE, <<>>) : s \in BOOLEAN }
        \cup { JsonObject(FALSE, FALSE, TRUE, m) : m \in Msgs }
        \cup { JsonObject(FALSE, FALSE, FALSE, <<>>) }

JsonOthers ==
    { Response("json_other", <<>>, FALSE, FALSE, FALSE, <<>>, b) :
        b \in {Text_json_list, Text_json_null} }

\* a body longer than TextLimit
LongBody == [i \in 1..MaxBody |-> "x"]

TextBodies ==
    { Response("text", <<>>, FALSE, FALSE, FALSE, <<>>, b) :
        b \in { <<>>, Text_Logon_Success, Text_html_error, LongBody,
                 LongBody \o Text_Logon_Success } }

RequestExceptions ==
    { Response("raise", e, FALSE, FALSE, FALSE, <<>>, <<>>) :
        e \in {Text_ConnectionError, Text_Timeout} }

Responses == JsonObjects \cup JsonOthers \cup TextBodies \cup RequestExceptions

\* ------------------------------------------------- probe responses
\* What requests.get gives back to NetworkMonitor.run: a response with a
\* status code, or an exception (exc names it)
ProbeStatusCodes == {200, 204, 404}

ProbeOutcome(kind, status_code, exc) ==
    [kind |-> kind, status_code |-> status_code, exc |-> exc]

NoProbe == ProbeOutcome("none", 0, <<>>)

ProbeOutcomes ==
    { ProbeOutcome("response", c, <<>>) : c \in ProbeStatusCodes }
        \cup { ProbeOutcome("raise", 0, e) : e \in {Text_ConnectionError, Text_Timeout} }

\* the payload of the login_result signal: message = prefix + detail
\*   "login succeeded: "  = "登录成功: "     "login succeeded" = "登录成功"
\*   "login failed: "     = "登录失败: "     "login response: " = "登录响应: "
\*   "connection failed: " = "连接失败: "    "error: "          = "错误: "
Outcome(prefix_, detail, success) ==
    [prefix |-> prefix_, detail |-> detail, success |-> success]

NoOutcome == Outcome("none", <<>>, FALSE)

\* reload_config calls are counted up to this number
MaxReloadsCounted == 2

\* no modification made while hot reload was off is followed
NoEdit == -1

\* one more reload_config call read the file holding that modification
count_reload(n) ==
    IF n = NoEdit THEN NoEdit
    ELSE IF n < MaxReloadsCounted THEN n + 1 ELSE n

\* ------------------------------------------------------------------ state
VARIABLES
    config,                   \* self.config
    auto_reconnect,           \* self.auto_reconnect
    check_interval,           \* self.check_interval
    periodic_login_interval,  \* self.periodic_login_interval
    forced_auto_reconnect,    \* self.forced_auto_reconnect
    auto_reconnect_cb,        \* self.auto_reconnect_cb.isChecked()
    interval_spin,            \* self.interval_spin.value()
    periodic_interval_spin,   \* self.periodic_interval_spin.value()
    auto_reconnect_action,    \* tray action: [enabled, checked]
    periodic_login_timer,     \* QTimer: [active, interval, remaining] (seconds)
    config_file,              \* content of network_config.yaml
    mtime_differs,            \* os.path.getmtime(config_file) != self.config_last_modified
    config_monitor_timer,     \* self.config_monitor_timer.isActive()
    external_change,          \* somebody else wrote the file since the program last
                              \* reloaded it or reported a change of it
    edit_reloads,             \* reload_config calls that read what somebody else wrote
                              \* to the file while config_monitor_timer was stopped
                              \* (NoEdit: the file does not hold such a modification)
    login_threads,            \* LoginWorker threads whose request is outstanding
    login_results,            \* number of login_result signals queued to the main thread
    monitor_pc,               \* NetworkMonitor.run position: "test" (the loop
                              \* condition), "probe", "sleep", "stopped"
    monitor_running,          \* NetworkMonitor.running
    monitor_config,           \* NetworkMonitor.config: the dictionary the monitor holds
    monitor_sleep,            \* the argument of the monitor's last time.sleep (0: none yet)
    probe,                    \* what the monitor's last requests.get returned or raised
    status_emitted,           \* the value of the last network_status.emit
    probes_after_stop,        \* network_status signals emitted since stop() was called
    network_status,           \* number of network_status signals queued to the main thread
    worker_pc,                \* the LoginWorker followed step by step: "idle" (there is
                              \* none), "created", "posted", "emitted", "delivered"
    worker_config,            \* LoginWorker.config: the dictionary that worker holds
    started_with,             \* Login of self.config when that worker was created
    posts,                    \* number of requests.post calls made by that worker
    request,                  \* the Login data and headers it sent ("none": nothing yet)
    response,                 \* what requests.post returned or raised
    outcome,                  \* the payload of the login_result signal it emitted
    phase,                    \* "running", "crashed" (unhandled exception), "quit"
    lastOp,                   \* the handler run by the last step ("-": none)
    logged,                   \* log entries written by the last handler
    attempt,                  \* what do_login did in the last handler
    saves                     \* number of save_config calls made by the last handler

vars == <<config, auto_reconnect, check_interval, periodic_login_interval,
          forced_auto_reconnect, auto_reconnect_cb, interval_spin,
          periodic_interval_spin, auto_reconnect_action, periodic_login_timer,
          config_file, mtime_differs, config_monitor_timer, external_change,
          edit_reloads, login_threads, login_results,
          monitor_pc, monitor_running, monitor_config, monitor_sleep,
          probe, status_emitted,
          probes_after_stop, network_status, phase,
          worker_pc, worker_config, started_with, posts, request, response,
          outcome, lastOp, logged, attempt, saves>>

\* the fields a main-thread handler reads and writes, as one record; a
\* handler is an operator from such a record to the record it leaves
St(op) ==
    [config |-> config, auto_reconnect |-> auto_reconnect,
     check_interval |-> check_interval,
     periodic_login_interval |-> periodic_login_interval,
     forced_auto_reconnect |-> forced_auto_reconnect,
     auto_reconnect_cb |-> auto_reconnect_cb, interval_spin |-> interval_spin,
     periodic_interval_spin |-> periodic_interval_spin,
     periodic_login_timer |-> periodic_login_timer,
     config_file |-> config_file, mtime_differs |-> mtime_differs,
     config_monitor_timer |-> config_monitor_timer,
     external_change |-> external_change,
     edit_reloads |-> edit_reloads,
     login_threads |-> login_threads,
     worker_config |-> worker_config,
     monitor_config |-> monitor_config,
     raised |-> FALSE, lastOp |-> op,
     logged |-> {}, attempt |-> "none", saves |-> 0]

Commit(s) ==
    /\ config' = s.config
    /\ auto_reconnect' = s.auto_reconnect
    /\ check_interval' = s.check_interval
    /\ periodic_login_interval' = s.periodic_login_interval
    /\ forced_auto_reconnect' = s.forced_auto_reconnect
    /\ auto_reconnect_cb' = s.auto_reconnect_cb
    /\ interval_spin' = s.interval_spin
    /\ periodic_interval_spin' = s.periodic_interval_spin
    /\ periodic_login_timer' = s.periodic_login_timer
    /\ config_file' = s.config_file
    /\ mtime_differs' = s.mtime_differs
    /\ config_monitor_timer' = s.config_monitor_timer
    /\ external_change' = s.external_change
    /\ edit_reloads' = s.edit_reloads
    /\ login_threads' = s.login_threads
    /\ worker_config' = s.worker_config
    /\ monitor_config' = s.monitor_config
    /\ phase' = IF s.raised THEN "crashed" ELSE phase
    /\ lastOp' = s.lastOp
    /\ logged' = s.logged
    /\ attempt' = s.attempt
    /\ saves' = s.saves

\* a step of a thread or of the environment: no handler ran
NoHandler ==
    /\ lastOp' = "-"
    /\ logged' = {}
    /\ attempt' = "none"
    /\ saves' = 0

\* ------------------------------------------------------------- helpers
log(s, msg) == [s EXCEPT !.logged = @ \cup {msg}]

raise(s) == [s EXCEPT !.raised = TRUE]

\* QSpinBox.setValue keeps the value inside the range set by setRange
clamp(v, lo, hi) == IF v < lo THEN lo ELSE IF v > hi THEN hi ELSE v

StoppedTimer == [active |-> FALSE, interval |-> 0, remaining |-> 0]

\* A thread object keeps a reference to the dictionary that was self.config
\* when it was created.  Of that dictionary the model keeps what the holder
\* reads: while alias is true it is the dictionary self.config refers to
\* (a change made in place by a handler is seen through it), afterwards it
\* is the dictionary as self.config left it.
Held(c) == [alias |-> TRUE, shape |-> c.shape, cred |-> c.cred]
NotHeld == [alias |-> FALSE, shape |-> "none", cred |-> "-"]
left_behind(h, c) ==
    IF h.alias THEN [alias |-> FALSE, shape |-> c.shape, cred |-> c.cred] ELSE h
held_dict(h, c) ==
    IF h.alias THEN [shape |-> c.shape, cred |-> c.cred]
               ELSE [shape |-> h.shape, cred |-> h.cred]

\* the same for the NetworkMonitor, which reads Settings; its dictionary
\* is followed where the thread is followed step by step
MonitorHeld == [alias |-> TRUE, check |-> 0]
MonitorNotFollowed == [alias |-> FALSE, check |-> 0]
monitor_left_behind(h, c) ==
    IF h.alias THEN [alias |-> FALSE, check |-> c.check] ELSE h

\* self.config['Settings'].get('check_interval', 60) in NetworkMonitor.run
monitor_check_interval(h, c) == IF h.alias THEN c.check ELSE h.check

\* "self.config = new_config": self.config refers to a new dictionary, the
\* old one stays with the threads that hold it
assign_config(s, new_config) ==
    [s EXCEPT !.config = new_config,
              !.worker_config = left_behind(@, s.config),
              !.monitor_config = monitor_left_behind(@, s.config)]

\* yaml.dump of self.config over the file: what somebody else wrote there
\* is gone
save_config(s) ==
    [s EXCEPT !.config_file = s.config, !.mtime_differs = TRUE, !.saves = @ + 1,
              !.edit_reloads = NoEdit]

update_periodic_timer(s) ==
    IF s.periodic_login_interval > 0
    THEN log([s EXCEPT !.periodic_login_timer =
                  [active |-> TRUE, interval |-> s.periodic_login_interval,
                   remaining |-> s.periodic_login_interval]],
             "periodic login enabled")
    ELSE log([s EXCEPT !.periodic_login_timer = StoppedTimer],
             "periodic login off")

\* a guard that tests the user name and the password but not the url
do_login_url_unchecked(s) ==
    IF ~hasLogin(s.config)
    THEN raise([s EXCEPT !.attempt = "raised"])
    ELSE IF \/ userName_is_placeholder(s.config)
            \/ pwd_is_placeholder(s.config)
    THEN log([s EXCEPT !.attempt = "refused"], "error: fill in the login information")
    ELSE [s EXCEPT !.attempt = "worker", !.login_threads = @ + 1]

do_login(s) ==
    IF ~hasLogin(s.config)
    THEN raise([s EXCEPT !.attempt = "raised"])
    ELSE IF \/ userName_is_placeholder(s.config)
            \/ pwd_is_placeholder(s.config)
            \/ url_has_placeholder(s.config)
    THEN log([s EXCEPT !.attempt = "refused"], "error: fill in the login information")
    ELSE [s EXCEPT !.attempt = "worker", !.login_threads = @ + 1]

periodic_login(s) ==
    do_login(log(s, "periodic login"))

\* a handler that reacts to an outage whatever auto_reconnect says
on_network_status_changed_ungated(s, status) ==
    IF ~status
    THEN do_login(log(s, "network unavailable, trying to log in"))
    ELSE s

on_network_status_changed(s, status) ==
    IF ~status /\ s.auto_reconnect
    THEN do_login(log(s, "network unavailable, trying to log in"))
    ELSE s

manual_login(s) ==
    do_login(log(s, "manual login"))

on_login_result(s, success) ==
    IF success THEN log(s, "login ok") ELSE log(s, "login failed")

\* a toggle that does not look at forced_auto_reconnect
toggle_auto_reconnect_unlocked(s, isBool, checked) ==
    LET s1 == [s EXCEPT !.auto_reconnect =
                   IF isBool THEN checked ELSE s.auto_reconnect_cb]
    IN  IF ~hasSettings(s1.config)
        THEN raise(s1)
        ELSE log(save_config([s1 EXCEPT !.config.auto = s1.auto_reconnect]),
                 IF s1.auto_reconnect THEN "auto reconnect on"
                                      ELSE "auto reconnect off")

\* isBool: the argument is a bool (tray action); otherwise it is the int
\* state of the check box and the check box is read instead
toggle_auto_reconnect(s, isBool, checked) ==
    IF s.forced_auto_reconnect
    THEN log([s EXCEPT !.auto_reconnect_cb = TRUE], "auto reconnect is locked")
    ELSE LET s1 == [s EXCEPT !.auto_reconnect =
                        IF isBool THEN checked ELSE s.auto_reconnect_cb]
         IN  IF ~hasSettings(s1.config)
             THEN raise(s1)
             ELSE log(save_config([s1 EXCEPT !.config.auto = s1.auto_reconnect]),
                      IF s1.auto_reconnect THEN "auto reconnect on"
                                           ELSE "auto reconnect off")

update_check_interval(s, interval) ==
    LET s1 == [s EXCEPT !.check_interval = interval]
    IN  IF ~hasSettings(s1.config)
        THEN raise(s1)
        ELSE log(save_config([s1 EXCEPT !.config.check = interval]),
                 "check interval updated")

update_periodic_login_interval(s, interval) ==
    LET s1 == [s EXCEPT !.periodic_login_interval = interval]
    IN  IF ~hasSettings(s1.config)
        THEN raise(s1)
        ELSE update_periodic_timer(
                 log(save_config([s1 EXCEPT !.config.periodic = interval]),
                     IF interval > 0 THEN "periodic interval updated"
                                     ELSE "periodic login off"))

\* the widgets emit their change signal only when the value changes
auto_reconnect_cb_setChecked(s, v) ==
    IF s.auto_reconnect_cb = v
    THEN s
    ELSE toggle_auto_reconnect([s EXCEPT !.auto_reconnect_cb = v], FALSE, v)

interval_spin_setValue(s, v) ==
    LET c == clamp(v, SpinCheckMin, SpinCheckMax)
    IN  IF s.interval_spin = c
        THEN s
        ELSE update_check_interval([s EXCEPT !.interval_spin = c], c)

periodic_interval_spin_setValue(s, v) ==
    LET c == clamp(v, SpinPeriodicMin, SpinPeriodicMax)
    IN  IF s.periodic_interval_spin = c
        THEN s
        ELSE update_periodic_login_interval([s EXCEPT !.periodic_interval_spin = c], c)

reload_failed(s) == log(s, "reload failed")

\* ---- LoginWorker.do_login, after requests.post
\* a classification that reports a failure without msg with an empty text
classify_json_object_no_default(r) ==
    IF r.has_success /\ r.success
    THEN Outcome("login succeeded: ", IF r.has_msg THEN r.msg ELSE <<>>, TRUE)
    ELSE Outcome("login failed: ", r.msg, FALSE)

\* result = response.json() is a dict: result.get('success') decides
classify_json_object(r) ==
    IF r.has_success /\ r.success
    THEN Outcome("login succeeded: ", IF r.has_msg THEN r.msg ELSE <<>>, TRUE)
    ELSE Outcome("login failed: ",
                 IF r.has_msg THEN r.msg ELSE Text_unknown_error, FALSE)

\* response.json() raised ValueError: the text of the body decides
classify_text(r) ==
    IF \/ contains(lower(r.text), Text_success)
       \/ contains(lower(r.text), Text_logon_success)
    THEN Outcome("login succeeded", <<>>, TRUE)
    ELSE Outcome("login response: ", prefix(r.text, TextLimit), FALSE)

\* a handler of RequestException that reports it like a refusal of the portal
request_failed_as_refusal(r) == Outcome("login failed: ", r.exc, FALSE)

\* except requests.exceptions.RequestException
request_failed(r) == Outcome("connection failed: ", r.exc, FALSE)

\* except Exception
other_exception(text) == Outcome("error: ", text, FALSE)

classify_response(r) ==
    CASE r.kind = "raise" -> request_failed(r)
      [] r.kind = "json_object" -> classify_json_object(r)
      [] r.kind = "json_other" -> other_exception(Text_AttributeError)
      [] r.kind = "text" -> classify_text(r)

\* a reload that replaces self.config but keeps the settings it had read
\* from the previous one
reload_config_settings_kept(s) ==
    IF s.config_file.shape = "unparsable"
    THEN reload_failed(s)
    ELSE LET s1 == assign_config(s, s.config_file)
         IN  IF ~hasSettings(s1.config)
             THEN reload_failed(s1)
             ELSE IF ~hasLogin(s1.config)
             THEN reload_failed(s1)
             ELSE log([update_periodic_timer(s1) EXCEPT !.mtime_differs = FALSE],
                      "config reloaded")

\* a reload that keeps the value of auto_reconnect it read from the file
force_auto_reconnect_skipped(s) == s

\* "if self.forced_auto_reconnect: self.auto_reconnect = True"
force_auto_reconnect(s) ==
    IF s.forced_auto_reconnect THEN [s EXCEPT !.auto_reconnect = TRUE] ELSE s

reload_config(s) ==
    IF s.config_file.shape = "unparsable"
    THEN reload_failed(s)
    ELSE LET s1 == assign_config(s, s.config_file)
         IN  IF ~hasSettings(s1.config)
             THEN reload_failed(s1)
             ELSE LET s2 == force_auto_reconnect(
                             [s1 EXCEPT
                               !.auto_reconnect = s1.config.auto,
                               !.check_interval = s1.config.check,
                               !.periodic_login_interval = s1.config.periodic,
                               !.forced_auto_reconnect = s1.config.forced])
                      s3 == auto_reconnect_cb_setChecked(s2, s2.auto_reconnect)
                      s4 == interval_spin_setValue(s3, s3.check_interval)
                      s5 == periodic_interval_spin_setValue(s4, s4.periodic_login_interval)
                  IN  IF ~is_int(s3.check_interval)
                      THEN reload_failed(s3)
                      ELSE IF ~hasLogin(s5.config)
                      THEN reload_failed(s5)
                      ELSE log([update_periodic_timer(s5) EXCEPT !.mtime_differs = FALSE],
                               "config reloaded")

check_config_update(s) ==
    IF s.mtime_differs
    THEN reload_config(log([s EXCEPT !.mtime_differs = FALSE], "config file modified"))
    ELSE s

\* toggle_hot_reload(state): the check box starts or stops the timer that
\* polls the file
toggle_hot_reload(s, checked) ==
    IF checked
    THEN log([s EXCEPT !.config_monitor_timer = TRUE], "hot reload enabled")
    ELSE log([s EXCEPT !.config_monitor_timer = FALSE], "hot reload disabled")

\* ------------------------------------------------------------------ Init
\* NetworkLoginApp.__init__ completes only on a file with Settings and Login
AppInit(docs) ==
    /\ config_file \in docs
    /\ config = config_file
    /\ forced_auto_reconnect = config.forced
    /\ auto_reconnect = (config.forced \/ config.auto)
    /\ check_interval = config.check
    /\ periodic_login_interval = config.periodic
    /\ auto_reconnect_cb = auto_reconnect
    /\ interval_spin = clamp(check_interval, SpinCheckMin, SpinCheckMax)
    /\ periodic_interval_spin = clamp(periodic_login_interval, SpinPeriodicMin, SpinPeriodicMax)
    /\ auto_reconnect_action = [enabled |-> ~forced_auto_reconnect, checked |-> auto_reconnect]
    /\ periodic_login_timer =
          IF periodic_login_interval > 0
          THEN [active |-> TRUE, interval |-> periodic_login_interval,
                remaining |-> periodic_login_interval]
          ELSE StoppedTimer
    /\ mtime_differs = FALSE
    /\ config_monitor_timer = TRUE
    /\ external_change = FALSE
    /\ edit_reloads = NoEdit
    /\ login_results = 0
    /\ monitor_pc = "sleep"
    /\ monitor_running = TRUE
    /\ monitor_sleep = 0
    /\ probe = NoProbe
    /\ status_emitted = FALSE
    /\ probes_after_stop = 0
    /\ network_status = 0
    /\ phase = "running"
    /\ lastOp = "init"
    /\ logged = {}
    /\ attempt = "none"
    /\ saves = 0

\* the program after NetworkLoginApp.__init__: no login was asked for yet.
\* The threads are seen from the main thread, by the signals they emit.
Init ==
    /\ AppInit(FullDocs)
    /\ monitor_config = MonitorNotFollowed
    /\ login_threads = 0
    /\ worker_pc = "idle"
    /\ worker_config = NotHeld
    /\ started_with = "none"
    /\ posts = 0
    /\ request = "none"
    /\ response = NoResponse
    /\ outcome = NoOutcome

\* the configurations with which do_login creates a LoginWorker
WorkerDocs == { d \in FullDocs : d.cred = "ok" } \cup {NoHeadersDoc}

\* the program after do_login created a LoginWorker with the startup
\* configuration and started its thread (lines 467-471)
InitWorker ==
    /\ AppInit(WorkerDocs)
    /\ monitor_config = MonitorNotFollowed
    /\ login_threads = 1
    /\ worker_pc = "created"
    /\ worker_config = Held(config)
    /\ started_with = config.cred
    /\ posts = 0
    /\ request = "none"
    /\ response = NoResponse
    /\ outcome = NoOutcome

\* the program after NetworkLoginApp.__init__, with the NetworkMonitor that
\* start_network_monitor created on self.config (line 409) followed step
\* by step
InitMonitor ==
    /\ AppInit(FullDocs)
    /\ monitor_config = MonitorHeld
    /\ login_threads = 0
    /\ worker_pc = "idle"
    /\ worker_config = NotHeld
    /\ started_with = "none"
    /\ posts = 0
    /\ request = "none"
    /\ response = NoResponse
    /\ outcome = NoOutcome

\* ------------------------------------------------------------------ actions
InFlight == login_threads + login_results

settingsVars == <<config, auto_reconnect, check_interval, periodic_login_interval,
                  forced_auto_reconnect, auto_reconnect_cb, interval_spin,
                  periodic_interval_spin, config_file, mtime_differs, external_change,
                  edit_reloads, worker_config, monitor_config>>

mainVars == <<settingsVars, config_monitor_timer>>

probeVars == <<probe, status_emitted>>

monitorVars == <<monitor_pc, monitor_running, monitor_sleep, probes_after_stop,
                 probeVars>>

workerVars == <<worker_pc, started_with, posts, request, response, outcome>>

threadVars == <<login_results, monitorVars, network_status>>

\* the "log in now" button or tray entry
ManualLogin ==
    /\ phase = "running"
    /\ InFlight < MaxInFlight
    /\ Commit(manual_login(St("manual_login")))
    /\ UNCHANGED <<threadVars, auto_reconnect_action>>
    /\ UNCHANGED workerVars

\* delivery of a queued network_status signal
OnNetworkStatusChanged ==
    /\ phase = "running"
    /\ network_status > 0
    /\ InFlight < MaxInFlight
    /\ \E status \in BOOLEAN :
          Commit(on_network_status_changed(
                     St(IF status THEN "on_network_status_changed(True)"
                                  ELSE "on_network_status_changed(False)"),
                     status))
    /\ network_status' = network_status - 1
    /\ UNCHANGED <<login_results, monitorVars, auto_reconnect_action>>
    /\ UNCHANGED workerVars

\* timeout of periodic_login_timer; the timer is repeating
PeriodicLogin ==
    /\ phase = "running"
    /\ periodic_login_timer.active
    /\ periodic_login_timer.remaining = 0
    /\ InFlight < MaxInFlight
    /\ Commit(periodic_login(
                  [St("periodic_login") EXCEPT
                      !.periodic_login_timer.remaining = periodic_login_timer.interval]))
    /\ UNCHANGED <<threadVars, auto_reconnect_action>>
    /\ UNCHANGED workerVars

\* one second passes
Tick ==
    /\ phase = "running"
    /\ periodic_login_timer.active
    /\ periodic_login_timer.remaining > 0
    /\ periodic_login_timer' = [periodic_login_timer EXCEPT !.remaining = @ - 1]
    /\ NoHandler
    /\ UNCHANGED <<mainVars, auto_reconnect_action, login_threads, phase, threadVars>>
    /\ UNCHANGED workerVars

\* a LoginWorker thread finishes its request and emits login_result
LoginWorkerEmit ==
    /\ phase = "running"
    /\ login_threads > 0
    /\ login_results' = login_results + 1
    /\ login_threads' = login_threads - 1
    /\ NoHandler
    /\ UNCHANGED <<mainVars, auto_reconnect_action, periodic_login_timer, phase,
                   monitorVars, network_status>>
    /\ UNCHANGED workerVars

\* delivery of a queued login_result signal
OnLoginResult ==
    /\ phase = "running"
    /\ login_results > 0
    /\ \E success \in BOOLEAN :
          Commit(on_login_result(St("on_login_result"), success))
    /\ login_results' = login_results - 1
    /\ UNCHANGED <<monitorVars, network_status, auto_reconnect_action>>
    /\ UNCHANGED workerVars

\* NetworkMonitor.run, one cycle: the sleep ends, the loop condition is
\* tested, the probe is made and its result is emitted
MonitorCycle ==
    /\ phase = "running"
    /\ monitor_pc = "sleep"
    /\ IF monitor_running
       THEN /\ network_status < MaxQueue
            /\ network_status' = network_status + 1
            /\ monitor_pc' = "sleep"
       ELSE /\ monitor_pc' = "stopped"
            /\ UNCHANGED network_status
    /\ NoHandler
    /\ UNCHANGED <<mainVars, auto_reconnect_action, periodic_login_timer, phase,
                   login_threads, login_results, monitor_running, monitor_sleep,
                   probes_after_stop, probeVars>>
    /\ UNCHANGED workerVars

\* the user clicks the "auto reconnect" check box (disabled while forced)
ToggleCheckBox ==
    /\ phase = "running"
    /\ ~forced_auto_reconnect
    /\ Commit(toggle_auto_reconnect(
                  [St("toggle_auto_reconnect") EXCEPT
                      !.auto_reconnect_cb = ~auto_reconnect_cb],
                  FALSE, ~auto_reconnect_cb))
    /\ UNCHANGED <<threadVars, auto_reconnect_action>>
    /\ UNCHANGED workerVars

\* the user triggers the checkable tray action (disabled only when the
\* program was started with forced_auto_reconnect)
ToggleTrayAction ==
    /\ phase = "running"
    /\ auto_reconnect_action.enabled
    /\ auto_reconnect_action' =
          [auto_reconnect_action EXCEPT !.checked = ~auto_reconnect_action.checked]
    /\ Commit(toggle_auto_reconnect(St("toggle_auto_reconnect"),
                                    TRUE, ~auto_reconnect_action.checked))
    /\ UNCHANGED threadVars
    /\ UNCHANGED workerVars

\* the user changes the check-interval spin box
SetCheckInterval ==
    /\ phase = "running"
    /\ \E v \in UserCheckValues :
          /\ v # interval_spin
          /\ Commit(update_check_interval(
                        [St("update_check_interval") EXCEPT !.interval_spin = v], v))
    /\ UNCHANGED <<threadVars, auto_reconnect_action>>
    /\ UNCHANGED workerVars

\* the user changes the periodic-login spin box
SetPeriodicLoginInterval ==
    /\ phase = "running"
    /\ \E v \in PeriodicValues :
          /\ v # periodic_interval_spin
          /\ Commit(update_periodic_login_interval(
                        [St("update_periodic_login_interval") EXCEPT
                            !.periodic_interval_spin = v], v))
    /\ UNCHANGED <<threadVars, auto_reconnect_action>>
    /\ UNCHANGED workerVars

\* the user clicks the "hot reload" check box: while the program runs the
\* box is checked exactly when config_monitor_timer is active (lines 131
\* and 275, and nothing else starts or stops that timer before quit_app)
ToggleHotReload ==
    /\ phase = "running"
    /\ Commit(toggle_hot_reload(St("toggle_hot_reload"), ~config_monitor_timer))
    /\ UNCHANGED <<threadVars, auto_reconnect_action>>
    /\ UNCHANGED workerVars

\* the "reload configuration" button or tray entry
ReloadConfig ==
    /\ phase = "running"
    /\ Commit(reload_config([St("reload_config") EXCEPT
                                 !.external_change = FALSE,
                                 !.edit_reloads = count_reload(@)]))
    /\ UNCHANGED <<threadVars, auto_reconnect_action>>
    /\ UNCHANGED workerVars

\* timeout of config_monitor_timer
CheckConfigUpdate ==
    /\ phase = "running"
    /\ config_monitor_timer
    /\ Commit(check_config_update(
                  [St("check_config_update") EXCEPT
                      !.external_change = IF mtime_differs THEN FALSE ELSE @,
                      !.edit_reloads = IF mtime_differs THEN count_reload(@) ELSE @]))
    /\ UNCHANGED <<threadVars, auto_reconnect_action>>
    /\ UNCHANGED workerVars

\* somebody else writes network_config.yaml
ExternalEdit ==
    /\ phase = "running"
    /\ \E f \in FileContents :
          config_file' = f
    /\ mtime_differs' = TRUE
    /\ external_change' = TRUE
    /\ edit_reloads' = IF config_monitor_timer THEN NoEdit ELSE 0
    /\ NoHandler
    /\ UNCHANGED <<config, auto_reconnect, check_interval, periodic_login_interval,
                   forced_auto_reconnect, auto_reconnect_cb, interval_spin,
                   periodic_interval_spin, auto_reconnect_action, worker_config,
                   monitor_config, config_monitor_timer,
                   periodic_login_timer, login_threads, phase, threadVars>>
    /\ UNCHANGED workerVars

\* a quit_app that stops the monitor and leaves the two timers running
QuitApp_timers_running ==
    /\ phase = "running"
    /\ monitor_running' = FALSE
    /\ phase' = "quit"
    /\ lastOp' = "quit_app"
    /\ logged' = {}
    /\ attempt' = "none"
    /\ saves' = 0
    /\ UNCHANGED <<mainVars, auto_reconnect_action, login_threads, login_results,
                   periodic_login_timer,
                   monitor_pc, monitor_sleep, probes_after_stop, probeVars,
                   network_status>>
    /\ UNCHANGED workerVars

\* somebody else writes network_config.yaml and leaves check_interval
\* without a number
ExternalEditBadCheck ==
    /\ phase = "running"
    /\ \E f \in BadCheckDocs :
          config_file' = f
    /\ mtime_differs' = TRUE
    /\ external_change' = TRUE
    /\ edit_reloads' = IF config_monitor_timer THEN NoEdit ELSE 0
    /\ NoHandler
    /\ UNCHANGED <<config, auto_reconnect, check_interval, periodic_login_interval,
                   forced_auto_reconnect, auto_reconnect_cb, interval_spin,
                   periodic_interval_spin, auto_reconnect_action, worker_config,
                   monitor_config, config_monitor_timer,
                   periodic_login_timer, login_threads, phase, threadVars>>
    /\ UNCHANGED workerVars

\* the "quit" tray entry: monitor.stop(), the two timers are stopped,
\* QApplication.quit() ends the event loop; no thread is joined
QuitApp ==
    /\ phase = "running"
    /\ monitor_running' = FALSE
    /\ config_monitor_timer' = FALSE
    /\ periodic_login_timer' = StoppedTimer
    /\ phase' = "quit"
    /\ lastOp' = "quit_app"
    /\ logged' = {}
    /\ attempt' = "none"
    /\ saves' = 0
    /\ UNCHANGED <<settingsVars, auto_reconnect_action, login_threads, login_results,
                   monitor_pc, monitor_sleep, probes_after_stop, probeVars,
                   network_status>>
    /\ UNCHANGED workerVars

\* LoginWorker.do_login up to requests.post: the worker reads the url, the
\* login data and the headers from the dictionary it holds and sends one
\* request; a missing key raises KeyError, which "except Exception" reports
LoginWorkerPost ==
    /\ phase = "running"
    /\ worker_pc = "created"
    /\ LET d == held_dict(worker_config, config)
       IN  IF hasLogin(d) /\ hasHeaders(d)
           THEN /\ \E r \in Responses : response' = r
                /\ posts' = posts + 1
                /\ request' = d.cred
                /\ worker_pc' = "posted"
                /\ UNCHANGED <<outcome, login_threads, login_results>>
           ELSE /\ outcome' = other_exception(Text_KeyError)
                /\ worker_pc' = "emitted"
                /\ login_threads' = login_threads - 1
                /\ login_results' = login_results + 1
                /\ UNCHANGED <<posts, request, response>>
    /\ NoHandler
    /\ UNCHANGED <<mainVars, auto_reconnect_action, periodic_login_timer, phase,
                   monitorVars, network_status, started_with>>

\* LoginWorker.do_login after requests.post: the response (or the exception)
\* is classified and login_result is emitted; the thread ends
LoginWorkerClassify ==
    /\ phase = "running"
    /\ worker_pc = "posted"
    /\ outcome' = classify_response(response)
    /\ worker_pc' = "emitted"
    /\ login_threads' = login_threads - 1
    /\ login_results' = login_results + 1
    /\ NoHandler
    /\ UNCHANGED <<mainVars, auto_reconnect_action, periodic_login_timer, phase,
                   monitorVars, network_status,
                   started_with, posts, request, response>>

\* delivery of the login_result signal of that worker
DeliverLoginResult ==
    /\ phase = "running"
    /\ worker_pc = "emitted"
    /\ login_results > 0
    /\ Commit(on_login_result(St("on_login_result"), outcome.success))
    /\ login_results' = login_results - 1
    /\ worker_pc' = "delivered"
    /\ UNCHANGED <<monitorVars, network_status, auto_reconnect_action,
                   started_with, posts, request, response, outcome>>

\* ---- NetworkMonitor.run step by step.  The thread goes on after quit_app
\* called stop(); a signal it emits then is queued to an event loop that
\* has ended and is never delivered.
\* time.sleep returns
MonitorWake ==
    /\ phase \in {"running", "quit"}
    /\ monitor_pc = "sleep"
    /\ monitor_pc' = "test"
    /\ NoHandler
    /\ UNCHANGED <<mainVars, auto_reconnect_action, periodic_login_timer, phase,
                   login_threads, login_results, network_status, monitor_running,
                   monitor_sleep, probes_after_stop, probeVars>>
    /\ UNCHANGED workerVars

\* a loop that looks at the flag only after two more probes
MonitorTest_late ==
    /\ phase \in {"running", "quit"}
    /\ monitor_pc = "test"
    /\ monitor_pc' = IF monitor_running \/ probes_after_stop < 2
                     THEN "probe" ELSE "stopped"
    /\ NoHandler
    /\ UNCHANGED <<mainVars, auto_reconnect_action, periodic_login_timer, phase,
                   login_threads, login_results, network_status, monitor_running,
                   monitor_sleep, probes_after_stop, probeVars>>
    /\ UNCHANGED workerVars

\* "while self.running:", then requests.get is called
MonitorTest ==
    /\ phase \in {"running", "quit"}
    /\ monitor_pc = "test"
    /\ monitor_pc' = IF monitor_running THEN "probe" ELSE "stopped"
    /\ NoHandler
    /\ UNCHANGED <<mainVars, auto_reconnect_action, periodic_login_timer, phase,
                   login_threads, login_results, network_status, monitor_running,
                   monitor_sleep, probes_after_stop, probeVars>>
    /\ UNCHANGED workerVars

\* a monitor that reports every answer below 400 as reachable (response.ok)
probe_reachable_ok(p) == p.kind = "response" /\ p.status_code < 400

\* "emit(response.status_code == 200)", and emit(False) in the except clause
probe_reachable(p) == p.kind = "response" /\ p.status_code = 200

\* requests.get returns or raises, network_status is emitted, time.sleep is
\* called with the check_interval of the dictionary the monitor holds
MonitorEmit ==
    /\ phase \in {"running", "quit"}
    /\ monitor_pc = "probe"
    /\ \E p \in ProbeOutcomes :
          /\ probe' = p
          /\ status_emitted' = probe_reachable(p)
    /\ IF phase = "running"
       THEN /\ network_status < MaxQueue
            /\ network_status' = network_status + 1
       ELSE UNCHANGED network_status
    /\ probes_after_stop' = IF monitor_running THEN probes_after_stop
                                               ELSE probes_after_stop + 1
    /\ monitor_sleep' = monitor_check_interval(monitor_config, config)
    /\ monitor_pc' = "sleep"
    /\ NoHandler
    /\ UNCHANGED <<mainVars, auto_reconnect_action, periodic_login_timer, phase,
                   login_threads, login_results, monitor_running>>
    /\ UNCHANGED workerVars

\* the whole program
Next ==
    \/ ManualLogin
    \/ OnNetworkStatusChanged
    \/ PeriodicLogin
    \/ Tick
    \/ LoginWorkerEmit
    \/ OnLoginResult
    \/ MonitorCycle
    \/ ToggleCheckBox
    \/ ToggleTrayAction
    \/ SetCheckInterval
    \/ SetPeriodicLoginInterval
    \/ ReloadConfig
    \/ CheckConfigUpdate
    \/ ExternalEdit
    \/ ExternalEditBadCheck
    \/ ToggleHotReload
    \/ QuitApp

Spec == Init /\ [][Next]_vars

\* the program while the user leaves the two interval spin boxes alone:
\* the three login triggers, the threads, the auto-reconnect switch and
\* the configuration reloads, in all interleavings
NextLogin ==
    \/ ManualLogin
    \/ OnNetworkStatusChanged
    \/ PeriodicLogin
    \/ Tick
    \/ LoginWorkerEmit
    \/ OnLoginResult
    \/ MonitorCycle
    \/ ToggleCheckBox
    \/ ToggleTrayAction
    \/ ReloadConfig
    \/ CheckConfigUpdate
    \/ ExternalEdit
    \/ QuitApp

SpecLogin == Init /\ [][NextLogin]_vars

\* the program while nobody asks for a manual login and the probe results
\* are not delivered: the settings handlers, the configuration reloads and
\* the periodic timer with the attempts it starts, in all interleavings
NextConfig ==
    \/ PeriodicLogin
    \/ Tick
    \/ LoginWorkerEmit
    \/ OnLoginResult
    \/ ToggleCheckBox
    \/ ToggleTrayAction
    \/ SetCheckInterval
    \/ SetPeriodicLoginInterval
    \/ ReloadConfig
    \/ CheckConfigUpdate
    \/ ExternalEdit
    \/ QuitApp

SpecConfig == Init /\ [][NextConfig]_vars

\* the periodic timer with the attempts it starts, the setter of its
\* interval and the reloads, while the file is edited by hand, a value
\* that is not a number included
NextReload ==
    \/ PeriodicLogin
    \/ Tick
    \/ LoginWorkerEmit
    \/ OnLoginResult
    \/ SetPeriodicLoginInterval
    \/ ReloadConfig
    \/ CheckConfigUpdate
    \/ ExternalEdit
    \/ ExternalEditBadCheck
    \/ QuitApp

SpecReload == Init /\ [][NextReload]_vars

\* the hot-reload check box, the poll, the reload button, the external
\* editor and two of the setters that write the file
NextHotReload ==
    \/ ToggleHotReload
    \/ ToggleCheckBox
    \/ SetCheckInterval
    \/ ReloadConfig
    \/ CheckConfigUpdate
    \/ ExternalEdit
    \/ QuitApp

SpecHotReload == Init /\ [][NextHotReload]_vars

\* one LoginWorker from its creation to the delivery of its result, while
\* the configuration is edited, reloaded and changed through the check box
NextWorker ==
    \/ LoginWorkerPost
    \/ LoginWorkerClassify
    \/ DeliverLoginResult
    \/ ToggleCheckBox
    \/ ReloadConfig
    \/ ExternalEdit

SpecWorker == InitWorker /\ [][NextWorker]_vars

\* the same, with a worker thread that is scheduled, a request that returns
\* or fails (requests.post has a timeout of 10 seconds) and an event loop
\* that delivers the queued signal.  LoginWorkerClassify is enabled exactly
\* while the program runs with the worker at "posted", and it leaves that
\* position: its weak fairness is the third conjunct.
SpecWorkerFair ==
    /\ SpecWorker
    /\ WF_vars(LoginWorkerPost)
    /\ []<>(~(phase = "running" /\ worker_pc = "posted"))
    /\ WF_vars(DeliverLoginResult)

\* the NetworkMonitor thread step by step, the delivery of its signals and
\* the logins they start, while the check interval is set, the
\* configuration is edited and reloaded, and the program is quit
NextMonitor ==
    \/ MonitorWake
    \/ MonitorTest
    \/ MonitorEmit
    \/ OnNetworkStatusChanged
    \/ LoginWorkerEmit
    \/ OnLoginResult
    \/ SetCheckInterval
    \/ ReloadConfig
    \/ QuitApp

SpecMonitor == InitMonitor /\ [][NextMonitor]_vars

\* the same, with a monitor thread that is scheduled and whose probe and
\* sleep return
SpecMonitorFair ==
    /\ SpecMonitor
    /\ WF_vars(MonitorWake)
    /\ WF_vars(MonitorTest)
    /\ WF_vars(MonitorEmit)

\* ------------------------------------------------------------------ claims
Attempted == {"worker", "refused"}

\* C1: the number of login attempts in flight (started by do_login, outcome
\* not yet delivered to on_login_result) never exceeds 1.
C1_AtMostOneInFlight == InFlight <= 1

\* C2: a manual, reactive or periodic trigger that arrives while an attempt
\* is in flight is dropped: it starts no new attempt.
C2_TriggerDroppedWhileInFlight ==
    [][(InFlight >= 1 /\ lastOp' \in {"manual_login", "periodic_login",
                                      "on_network_status_changed(False)",
                                      "on_network_status_changed(True)"})
        => login_threads' = login_threads]_vars

\* C3: in every reachable state, forced_auto_reconnect implies that the
\* effective auto_reconnect is true.
C3_ForcedImpliesAutoReconnect == forced_auto_reconnect => auto_reconnect

\* a reload has read a file that forces auto reconnect and sets
\* auto_reconnect: false, in a program started without the lock
C3_Witness ==
    /\ lastOp \in {"reload_config", "check_config_update"}
    /\ forced_auto_reconnect
    /\ hasSettings(config) /\ ~config.auto
    /\ auto_reconnect_action.enabled
    /\ auto_reconnect

\* C4: while forced_auto_reconnect is true, a call of toggle_auto_reconnect
\* leaves auto_reconnect, the configuration in memory and the configuration
\* file unchanged, and writes a log entry for the rejection.
C4_ForcedToggleRejected ==
    [][(forced_auto_reconnect /\ lastOp' = "toggle_auto_reconnect")
        => /\ UNCHANGED <<auto_reconnect, config, config_file, mtime_differs>>
           /\ "auto reconnect is locked" \in logged']_vars

\* the tray action was triggered while the lock was on
C4_Witness ==
    /\ lastOp = "toggle_auto_reconnect"
    /\ forced_auto_reconnect
    /\ "auto reconnect is locked" \in logged
    /\ phase = "running"

\* C5: a probe result with reachable = true, and one with reachable = false
\* received while auto_reconnect is false, start no login attempt and change
\* no state of the controller.
C5_ProbeGated ==
    [][(\/ lastOp' = "on_network_status_changed(True)"
        \/ (lastOp' = "on_network_status_changed(False)" /\ ~auto_reconnect))
        => /\ attempt' = "none"
           /\ logged' = {}
           /\ UNCHANGED <<mainVars, periodic_login_timer, auto_reconnect_action,
                          login_threads, login_results, phase>>]_vars

\* an outage was reported with auto reconnect off and usable credentials
C5_Witness ==
    /\ lastOp = "on_network_status_changed(False)"
    /\ ~auto_reconnect
    /\ hasLogin(config) /\ config.cred = "ok"
    /\ attempt = "none"
    /\ InFlight = 0

\* C6: a probe result with reachable = false delivered while auto_reconnect
\* is true and no attempt is in flight produces exactly one login attempt
\* (a worker, or the refusal of the placeholder credentials).
C6_OutageStartsOneAttempt ==
    [][(lastOp' = "on_network_status_changed(False)" /\ auto_reconnect /\ InFlight = 0)
        => /\ attempt' \in Attempted
           /\ InFlight' = IF attempt' = "worker" THEN 1 ELSE 0]_vars

\* C7: a manual login requested while no attempt is in flight starts a
\* login attempt, whatever auto_reconnect and forced_auto_reconnect are.
C7_ManualLoginHonored ==
    [][(lastOp' = "manual_login" /\ InFlight = 0)
        => /\ attempt' \in Attempted
           /\ InFlight' = IF attempt' = "worker" THEN 1 ELSE 0]_vars

\* C8: the periodic trigger fires only while periodic_login_interval > 0,
\* and each firing starts a login attempt, whatever auto_reconnect is.
C8_PeriodicFires ==
    [][lastOp' = "periodic_login"
        => /\ periodic_login_interval > 0
           /\ attempt' \in Attempted]_vars

\* C9: setting the periodic interval to N > 0 reschedules the timer: it
\* runs with period N and fires next N seconds after the call.
C9_SetterReschedules ==
    (lastOp = "update_periodic_login_interval" /\ periodic_interval_spin > 0)
        => periodic_login_timer =
              [active |-> TRUE, interval |-> periodic_interval_spin,
               remaining |-> periodic_interval_spin]

\* C10: while periodic_login_interval is 0 (set through the spin box or by
\* a reload), no periodic login happens.
C10_NoPeriodicLoginWhileOff ==
    [][periodic_login_interval = 0 => lastOp' # "periodic_login"]_vars

\* the guard of do_login refuses this configuration
Unconfigured(c) ==
    /\ hasLogin(c)
    /\ \/ userName_is_placeholder(c)
       \/ pwd_is_placeholder(c)
       \/ url_has_placeholder(c)

WorkerEmitted == worker_pc \in {"emitted", "delivered"}

\* C12: when the body of the login response is a JSON object with a
\* success key, the worker emits a success that carries msg (empty when
\* msg is absent) if success is true, and a failure that carries msg
\* ("unknown error" when msg is absent) if success is false.
C12_StructuredResponse ==
    (WorkerEmitted /\ response.kind = "json_object" /\ response.has_success)
        => /\ outcome.success = response.success
           /\ outcome.prefix = IF response.success THEN "login succeeded: "
                                                   ELSE "login failed: "
           /\ outcome.detail =
                 IF response.has_msg THEN response.msg
                 ELSE IF response.success THEN <<>> ELSE Text_unknown_error

\* the portal answered {"success":false} and the failure was delivered
C12_Witness ==
    /\ worker_pc = "delivered"
    /\ response.kind = "json_object"
    /\ response.has_success /\ ~response.success /\ ~response.has_msg
    /\ outcome = Outcome("login failed: ", Text_unknown_error, FALSE)
    /\ "login failed" \in logged

\* C13: every response body that is not a JSON object with a success key
\* is classified by its text: a success if the text contains "success" or
\* "logon success" in any case, otherwise a failure that carries the first
\* TextLimit characters of the text.
C13_TextHeuristicOtherwise ==
    (/\ WorkerEmitted
     /\ response.kind \in {"json_object", "json_other", "text"}
     /\ ~(response.kind = "json_object" /\ response.has_success))
        => LET found == \/ contains(lower(response.text), Text_success)
                        \/ contains(lower(response.text), Text_logon_success)
           IN  /\ outcome.success = found
               /\ ~found => outcome.detail = prefix(response.text, TextLimit)

\* C14: when requests.post fails in the network layer (connection error
\* or timeout alike), the worker emits a failure whose message starts with
\* "connection failed: ", and no answer of the portal gives a message that
\* starts so.
C14_TransportError ==
    WorkerEmitted
        => /\ response.kind = "raise"
                => (outcome.prefix = "connection failed: " /\ ~outcome.success)
           /\ outcome.prefix = "connection failed: " => response.kind = "raise"

\* the request timed out and the failure was delivered
C14_Witness ==
    /\ worker_pc = "delivered"
    /\ response.kind = "raise"
    /\ response.exc = Text_Timeout
    /\ outcome = Outcome("connection failed: ", Text_Timeout, FALSE)
    /\ "login failed" \in logged

\* C15: a LoginWorker that has emitted its result has called requests.post
\* exactly once.
C15_ExactlyOnePost == WorkerEmitted => posts = 1

\* C16: when the monitor starts a sleep, it sleeps for the check_interval
\* of the configuration the controller holds at that moment (a reloaded
\* one, or one whose check interval was set after a reload, included).
C16_MonitorUsesCurrentConfig ==
    [][(MonitorEmit /\ hasSettings(config))
        => monitor_sleep' = config.check]_vars

\* C17: stop() only clears the flag: it leaves the monitor where it is, in
\* its probe or its sleep; the monitor ends only from the test of the loop
\* condition; it emits at most one more network_status after stop(); once
\* stopped it stays stopped and the flag is never set again; and after
\* stop() the monitor eventually stops.
C17_CooperativeStop ==
    /\ [][/\ lastOp' = "quit_app" => (~monitor_running' /\ monitor_pc' = monitor_pc)
          /\ (monitor_pc # "stopped" /\ monitor_pc' = "stopped")
                => (monitor_pc = "test" /\ ~monitor_running)
          /\ monitor_pc = "stopped" => monitor_pc' = "stopped"
          /\ ~monitor_running => ~monitor_running'
          /\ probes_after_stop' <= 1]_vars
    /\ (~monitor_running) ~> (monitor_pc = "stopped")

\* stop() was called during a probe: the probe was finished and emitted,
\* the sleep was slept, then the monitor stopped
C17_Witness ==
    /\ monitor_pc = "stopped"
    /\ ~monitor_running
    /\ probes_after_stop = 1
    /\ phase = "quit"

\* C18: a reload or a change of a setting made while a LoginWorker is in
\* flight leaves the worker running and untouched, and the request the
\* worker sends carries the Login data and headers that self.config had
\* when the worker was created.
C18_AttemptKeepsSnapshot ==
    [][/\ (/\ worker_pc \in {"created", "posted"}
           /\ lastOp' \in {"reload_config", "toggle_auto_reconnect"})
            => /\ phase' = "running"
               /\ UNCHANGED <<workerVars, login_threads>>
       /\ (worker_pc = "created" /\ worker_pc' = "posted")
            => request' = started_with]_vars

\* C19: after a reload that succeeded, auto_reconnect is (forced or auto)
\* of the configuration now in memory, and the periodic timer runs with the
\* period of that configuration, restarted by the reload, if the period is
\* above 0, and is stopped if it is 0.
C19_ReloadRederives ==
    (lastOp \in {"reload_config", "check_config_update"} /\ "config reloaded" \in logged)
        => /\ auto_reconnect = (config.forced \/ config.auto)
           /\ periodic_login_timer =
                 IF config.periodic > 0
                 THEN [active |-> TRUE, interval |-> config.periodic,
                       remaining |-> config.periodic]
                 ELSE StoppedTimer

\* a reload switched auto reconnect off and changed the period of a timer
\* that was running
C19_Witness ==
    /\ lastOp = "reload_config"
    /\ "config reloaded" \in logged
    /\ "auto reconnect off" \in logged
    /\ ~auto_reconnect
    /\ config.periodic = 2
    /\ periodic_login_timer = [active |-> TRUE, interval |-> 2, remaining |-> 2]

\* C20: the poll reports a change of the file only when somebody else
\* wrote the file since the program last reloaded it or last reported a
\* change: at most one report for each external modification.
C20_PollOncePerExternalChange ==
    [][(lastOp' = "check_config_update" /\ "config file modified" \in logged')
        => external_change]_vars

\* C21: a reload that fails (a file that does not parse, an empty file, a
\* file without a required section) leaves the configuration in memory, the
\* settings derived from it and the periodic timer as they were, and the
\* program goes on after the warning.
C21_FailedReloadKeepsSnapshot ==
    [][(/\ lastOp' \in {"reload_config", "check_config_update"}
        /\ "reload failed" \in logged')
        => /\ UNCHANGED <<config, auto_reconnect, forced_auto_reconnect,
                          check_interval, periodic_login_interval,
                          periodic_login_timer>>
           /\ phase' = "running"]_vars

\* C22: quit_app clears the flag of the monitor loop without touching the
\* monitor thread, stops the periodic-login timer and the configuration
\* poll timer, and ends the program at once, with the login attempts in
\* flight left as they are; after it the flag stays cleared, the two timers
\* stay stopped, and no periodic login and no poll of the file happens.
C22_QuitStopsTimers ==
    /\ [][/\ lastOp' = "quit_app"
               => /\ phase' = "quit"
                  /\ UNCHANGED <<monitor_pc, login_threads, login_results>>
          /\ phase = "quit"
               => /\ lastOp' \notin {"periodic_login", "check_config_update"}
                  /\ UNCHANGED <<config, login_threads>>]_vars
    /\ [](phase = "quit"
            => /\ ~monitor_running
               /\ ~periodic_login_timer.active
               /\ ~config_monitor_timer)

\* the program was quit while a login attempt was in flight, the periodic
\* timer was about to fire and the file had been modified
C22_Witness ==
    /\ phase = "quit"
    /\ lastOp = "quit_app"
    /\ login_threads > 0
    /\ periodic_login_interval > 0
    /\ mtime_differs
    /\ ~periodic_login_timer.active
    /\ ~config_monitor_timer

\* C23: no handler (a setter or a reload) changes a field of the dictionary
\* that the monitor holds: the check_interval the monitor reads from its
\* dictionary is the same before and after every step.
C23_HeldSnapshotNeverMutated ==
    [][monitor_check_interval(monitor_config', config')
        = monitor_check_interval(monitor_config, config)]_vars

\* C24: no login trigger (manual, outage reported by the monitor, periodic
\* timer), in whatever state the configuration in memory is, ends the
\* program with an unhandled exception.
C24_TriggerNeverFatal ==
    [][lastOp' \in {"manual_login", "periodic_login",
                    "on_network_status_changed(False)",
                    "on_network_status_changed(True)"}
        => phase' = "running"]_vars

\* C25: the result of a LoginWorker is delivered to on_login_result at most
\* once, and every LoginWorker that was started eventually has its result
\* delivered.
C25_OneOutcomePerAttempt ==
    /\ [][/\ worker_pc = "delivered" => worker_pc' = "delivered"
          /\ (lastOp' = "on_login_result") => (worker_pc = "emitted")]_vars
    /\ (worker_pc = "created") ~> (worker_pc = "delivered")

\* a status code of the class 2xx
status_indicates_success(p) == p.kind = "response" /\ p.status_code \in 200..299

\* C26 as stated: the monitor emits network_status once in every cycle, at
\* the end of the probe and before the sleep, and nowhere else; the value
\* is true exactly when the status of the response indicates success, and
\* false for the other statuses and for every exception of the request.
C26_ProbeResultPerCycle ==
    [][/\ (monitor_pc = "probe" /\ monitor_pc' = "sleep")
            => /\ status_emitted' = status_indicates_success(probe')
               /\ phase = "running" => network_status' = network_status + 1
       /\ network_status' > network_status
            => (monitor_pc = "probe" /\ monitor_pc' = "sleep")
       /\ (monitor_pc # "probe") => UNCHANGED probeVars]_vars

\* C26, amended: the same, with the value true exactly when the status code
\* of the response is 200; every other status code, 204 included, gives
\* false like an exception of the request.
C26_ProbeResultPerCycle_200 ==
    [][/\ (monitor_pc = "probe" /\ monitor_pc' = "sleep")
            => /\ status_emitted' = (probe'.kind = "response" /\ probe'.status_code = 200)
               /\ phase = "running" => network_status' = network_status + 1
       /\ network_status' > network_status
            => (monitor_pc = "probe" /\ monitor_pc' = "sleep")
       /\ (monitor_pc # "probe") => UNCHANGED probeVars]_vars

\* the test url answered 204 and the monitor emitted False before its sleep
C26_Witness ==
    /\ monitor_pc = "sleep"
    /\ probe.kind = "response" /\ probe.status_code = 204
    /\ ~status_emitted
    /\ network_status = 1
    /\ phase = "running"

\* C27: a poll that comes right after a setter (toggle_auto_reconnect,
\* update_check_interval, update_periodic_login_interval) saved the file,
\* with no modification by somebody else outstanding, reloads nothing.
C27_OwnSaveNotReloaded ==
    [][(/\ lastOp \in {"toggle_auto_reconnect", "update_check_interval",
                       "update_periodic_login_interval"}
        /\ ~external_change
        /\ lastOp' = "check_config_update")
        => /\ "config file modified" \notin logged'
           /\ "config reloaded" \notin logged'
           /\ "reload failed" \notin logged']_vars

\* C28: a reload (explicit or started by the poll) that leaves
\* periodic_login_interval at the same N > 0 does not postpone the next
\* firing of the periodic timer: the time that remains until it fires is
\* the same after the reload as before.
C28_ReloadKeepsSchedule ==
    [][(/\ lastOp' \in {"reload_config", "check_config_update"}
        /\ periodic_login_interval > 0
        /\ periodic_login_interval' = periodic_login_interval
        /\ periodic_login_timer.active
        /\ periodic_login_timer.interval = periodic_login_interval)
        => /\ periodic_login_timer'.active
           /\ periodic_login_timer'.remaining = periodic_login_timer.remaining]_vars

\* C29: a reload, explicit or started by the poll, never calls save_config,
\* neither itself nor through the handlers of the controls it sets, and
\* leaves the content of the file as it was.
C29_ReloadOnlyReads ==
    [][lastOp' \in {"reload_config", "check_config_update"}
        => /\ saves' = 0
           /\ config_file' = config_file]_vars

\* C30: while the program runs (after startup, the setters and the reloads,
\* failed ones included), the periodic-login timer is active if and only if
\* periodic_login_interval > 0, and an active timer has the period
\* periodic_login_interval.
C30_TimerFollowsInterval ==
    phase = "running"
        => /\ periodic_login_timer.active = (periodic_login_interval > 0)
           /\ periodic_login_timer.active
                => periodic_login_timer.interval = periodic_login_interval

\* C31: while hot reload is disabled the poll never runs, so no modification
\* of the file causes a reload; a modification somebody else made while it
\* was disabled is not lost and is reloaded exactly once: until a reload
\* reads it no handler of the program writes the file, the first poll after
\* hot reload is enabled again reloads it if reload_config has not read it,
\* and the poll never reloads it after reload_config has read it
C31_DisabledEditReloadedOnce ==
    [][/\ ~config_monitor_timer => lastOp' # "check_config_update"
       /\ (edit_reloads = 0
             /\ lastOp' \notin {"-", "reload_config", "check_config_update"})
             => config_file' = config_file
       /\ (edit_reloads = 0 /\ lastOp' = "check_config_update")
             => "config file modified" \in logged'
       /\ (edit_reloads >= 1 /\ lastOp' = "check_config_update")
             => "config file modified" \notin logged']_vars
====
